---------------------------- MODULE Spec2Model ----------------------------
(***************************************************************************)
(* The Watching orchestrator of src/src/watcher.rs: the initial build task *)
(* spawned by Watching::new, the rebuild tasks spawned by on_event_handle, *)
(* and concurrent get_asset calls, over the two tokio RwLocks (compiler,   *)
(* watcher), the compiler's dependency report, the output store and the    *)
(* watcher's watch set.                                                    *)
(***************************************************************************)
EXTENDS Naturals, Sequences, FiniteSets, TLC

\* ------------------------------------------------------------------ bounds
\* Build/rebuild tasks: task 1 is the initial build, the others are rebuilds.
MaxTasks == 3
\* Tasks while get_asset calls are served, and concurrent get_asset calls.
MaxServeTasks == 2
MaxReaders == 1

Tasks == 1 .. MaxTasks
ServeTasks == 1 .. MaxServeTasks
Readers == 1 .. MaxReaders

\* Source paths the compiler may depend on.
SrcPaths == {"src/a.ts", "src/b.ts"}

\* What a compiler run may leave as (file dependencies, missing dependencies).
DepChoices ==
    { [files |-> {"src/a.ts"}, missing |-> {"src/b.ts"}],
      [files |-> {"src/a.ts", "src/b.ts"}, missing |-> {}] }

\* Aggregated events, as (changed, deleted).
EventChoices ==
    { << {"src/a.ts"}, {} >>, << {"src/b.ts"}, {"src/a.ts"} >> }

\* Output files a compiler run may write, as paths below the output root.
OutFiles == { <<"index.html">>, <<"assets", "main.js">> }

\* The order in which a compiler run that emits output emits them.
EmitOrder == << <<"index.html">>, <<"assets", "main.js">> >>

\* Paths requested through get_asset.
ReqPaths == { <<"index.html">>, <<"assets">>, <<"missing.js">> }

None == <<"none", 0>>
TaskId(t) == <<"task", t>>
ReqId(r) == <<"req", r>>

\* ------------------------------------------------------- tokio::sync::RwLock
\* A fair read/write lock: waiters queue in FIFO order, a request that finds
\* waiters queues behind them, and a release hands the lock to the head of
\* the queue (and to the readers that follow a granted reader).
FreeLock == [writer |-> None, readers |-> {}, queue |-> <<>>]

Compatible(l, mode) ==
    IF mode = "w" THEN l.writer = None /\ l.readers = {}
                  ELSE l.writer = None

Take(l, id, mode) ==
    IF mode = "w" THEN [l EXCEPT !.writer = id]
                  ELSE [l EXCEPT !.readers = @ \cup {id}]

RECURSIVE Grant(_)
Grant(l) ==
    IF l.queue = <<>> THEN l
    ELSE LET h == Head(l.queue)
         IN  IF Compatible(l, h.mode)
             THEN Grant(Take([l EXCEPT !.queue = Tail(@)], h.id, h.mode))
             ELSE l

Request(l, id, mode) ==
    IF l.queue = <<>> /\ Compatible(l, mode)
    THEN Take(l, id, mode)
    ELSE [l EXCEPT !.queue = Append(@, [id |-> id, mode |-> mode])]

\* Faulty variant: a release that wakes no waiter.
ReleaseNoGrant(l, id) ==
    [l EXCEPT !.writer = IF @ = id THEN None ELSE @, !.readers = @ \ {id}]

Release(l, id) ==
    Grant([l EXCEPT !.writer = IF @ = id THEN None ELSE @,
                    !.readers = @ \ {id}])

HoldsWrite(l, id) == l.writer = id
HoldsRead(l, id) == id \in l.readers
Waits(l, id) == \E i \in 1 .. Len(l.queue) : l.queue[i].id = id

\* ------------------------------------------------------------------- state
VARIABLES
    pc,         \* pc[t]: position of build/rebuild task t
    delivered,  \* delivered[t]: the sets the watcher delivered to on_event_handle
    args,       \* args[t]: changed_files, deleted_files of the rebuild call
    res,        \* res[t]: result of the task's compiler call
    local,      \* local[t]: the task's `files` / `missing` bindings
    cLock,      \* the RwLock around the Compiler
    wLock,      \* the RwLock around the FsWatcher
    comp,       \* the Compiler: dependency report, calls started / completed
    store,      \* the output filesystem: file path -> ordinal of the build that wrote it
    published,  \* the store as the last completed compiler call left it
    watcher,    \* the FsWatcher: registered paths, armed, paused, events
                \* delivered, result of the compiler call it was last armed after
    req,        \* req[r]: a get_asset call
    http,       \* http[r]: the HTTP request whose handler made the call
    boot        \* main(): the environment, the address lookup, the listener

vars == << pc, delivered, args, res, local, cLock, wLock, comp, store,
           published, watcher, req, http, boot >>

NoArgs == [changed |-> {}, deleted |-> {}]
NoDeps == [all |-> {}, added |-> {}, removed |-> {}]
\* A task's progress and bindings: which steps it has done, whether its own
\* compiler call had returned when it read the dependencies, whether it has
\* logged the compilation's diagnostics, and the `files` / `missing` it read
\* (dropped when the function returns).
NoLocal == [paused |-> FALSE, compiled |-> FALSE, read |-> FALSE,
            fresh |-> FALSE, logged |-> FALSE, rearmed |-> FALSE,
            files |-> NoDeps, missing |-> NoDeps]
\* A get_asset call: `when` tells whether it was made and returned before
\* the initial build's compiler call completed ("before"), was made before
\* and returned after ("across"), or was made after; `expect` is the content
\* the last completed compiler call had left for the path when it returned,
\* `during` whether a compiler call was executing when the store was read.
IdleReq == [pc |-> "idle", path |-> <<>>, when |-> "after", result |-> None,
            expect |-> 0, during |-> FALSE]


\* ------------------------------------------------------ pure parts of the code
\* Task 1 is the build() spawned by Watching::new; every other task is a
\* rebuild() spawned by on_event_handle.
Kind(t) == IF t = 1 THEN "build" ELSE "rebuild"

\* Faulty variant: the dependency sets are read before the compiler call.
AfterDepsFirst(p) ==
    CASE p = "pause"   -> "lockR"
      [] p = "deps"    -> "lockW"
      [] p = "compile" -> "watch"
      [] p = "watch"   -> "done"

\* The order of the statements of build() and rebuild(): the position a task
\* moves to when it has finished the step named `p`.
After(p) ==
    CASE p = "pause"   -> "lockW"
      [] p = "compile" -> "lockR"
      [] p = "deps"    -> "watch"
      [] p = "watch"   -> "done"

\* Faulty variant: `?` instead of `.ok()`: an Err ends the function.
AfterCompilePropagate(r) == IF r = "err" THEN "done" ELSE "lockR"

\* `.ok()` drops the compiler's Result: the task goes on whatever it was.
AfterCompile(r) == After("compile")

\* Faulty variant: compiler.read() around the compiler call.
CompileLockModeRead == "r"

\* compiler.write(): the mode in which the compiler call takes the lock.
CompileLockMode == "w"

\* into_iter().collect::<HashSet<_>>(): the same elements in another set type.
ToHashSet(s) == { x \in SrcPaths : x \in s }

\* Faulty variant: the two sets passed in the wrong order.
SpawnArgsSwapped(c, d) == [changed |-> d, deleted |-> c]

\* on_event_handle's call of rebuild.
SpawnArgs(c, d) == [changed |-> ToHashSet(c), deleted |-> ToHashSet(d)]

\* rebuild's call of compiler.rebuild(changed_files, deleted_files).
CompilerArgs(a) == [changed |-> a.changed, deleted |-> a.deleted]

\* `for diagnostic in compiler.compilation.get_errors() { tracing::warn!(..) }`
\* stands between the dependency read and the rearm of rebuild(); build()
\* has no such loop.
LogsDiagnostics(kind) == kind = "rebuild"

\* Compilation::file_dependencies / missing_dependencies: (all, added, removed)
\* where added and removed are relative to the compiler's previous run.
NewDeps(old, now) ==
    [all |-> now, added |-> now \ old.all, removed |-> old.all \ now]

\* The (added, removed) pair handed to FsWatcher::watch: build passes
\* (files.0, files.2), rebuild passes (files.1, files.2).
WatchArg(kind, d) ==
    IF kind = "build" THEN [add |-> d.all, remove |-> d.removed]
                      ELSE [add |-> d.added, remove |-> d.removed]

\* FsWatcher::watch on one path register: the removed paths leave the
\* register, the added ones enter it.
Register(paths, a) == (paths \ a.remove) \cup a.add

\* compiler.options.output.path, set to "/" by routes().
OutputPath == <<>>

\* Utf8Path::join of a relative request path.
Join(base, p) == base \o p

IsPrefix(p, q) == Len(p) < Len(q) /\ SubSeq(q, 1, Len(p)) = p

\* Faulty variant: a directory is reported as a file.
StatDirsAsFiles(st, p) ==
    IF p \in OutFiles /\ st[p] > 0 THEN [ok |-> TRUE, is_file |-> TRUE]
    ELSE IF \E f \in OutFiles : st[f] > 0 /\ IsPrefix(p, f)
         THEN [ok |-> TRUE, is_file |-> TRUE]
         ELSE [ok |-> (p = OutputPath), is_file |-> FALSE]

\* output_filesystem.stat: a written file, a directory above one, or an error.
Stat(st, p) ==
    IF p \in OutFiles /\ st[p] > 0 THEN [ok |-> TRUE, is_file |-> TRUE]
    ELSE IF \E f \in OutFiles : st[f] > 0 /\ IsPrefix(p, f)
         THEN [ok |-> TRUE, is_file |-> FALSE]
         ELSE [ok |-> (p = OutputPath), is_file |-> FALSE]

\* Faulty variant: the is_file test left out.
IsHitAnyEntry(m) == m.ok

\* `if let Ok(metadata) = fs.stat(..) && metadata.is_file`
IsHit(m) == m.ok /\ m.is_file

\* mime_guess::from_path(..).first_or_octet_stream()
MimeOf(p) ==
    LET name == IF p = <<>> THEN "" ELSE p[Len(p)]
    IN  CASE name = "index.html" -> "text/html"
          [] name = "main.js"    -> "text/javascript"
          [] OTHER               -> "application/octet-stream"

\* Faulty variant: the store is read without the compiler guard.
AssetGuardNone(r, l) == TRUE

\* Faulty variant: the store is read as soon as the guard is held or queued for.
AssetGuardEager(r, l) == HoldsRead(l, ReqId(r)) \/ Waits(l, ReqId(r))

\* get_asset holds `compiler` (a read guard) while it stats and reads.
AssetGuard(r, l) == HoldsRead(l, ReqId(r))

\* How many of its files the compiler run `n` has emitted.
Emitted(st, n) == Cardinality({ f \in OutFiles : st[f] = n })

Content(st, p) == IF p \in OutFiles THEN st[p] ELSE 0

\* ------------------------------------------------- the HTTP routes' pure parts
\* StatusCode::NOT_FOUND, and the status of an Ok((HeaderMap, Vec<u8>)).
NOT_FOUND == 404
OK == 200
INTERNAL_SERVER_ERROR == 500

\* Request targets, as the path segments after the leading "/": <<>> is "/".
Uris == { <<>> } \cup ReqPaths

\* Router: "/" goes to get_index, which asks for "index.html"; "/{*path}"
\* goes to get_asset, which asks for the captured path.
RouteOf(uri) == IF uri = <<>> THEN "get_index" ELSE "get_asset"
RoutePath(uri) == IF uri = <<>> THEN <<"index.html">> ELSE uri

NoBody == <<"empty", "">>
NoResponse == [status |-> 0, ctype |-> "", body |-> NoBody]

\* StatusCode::canonical_reason
CanonicalReason(code) ==
    CASE code = NOT_FOUND             -> "Not Found"
      [] code = OK                    -> "OK"
      [] code = INTERNAL_SERVER_ERROR -> "Internal Server Error"
      [] OTHER                        -> ""

\* Error::into_response: a StatusCode error answers (code, reason), the
\* reason phrase being the body, when the code has one; any other error
\* answers 500.
IntoResponse(e) ==
    IF e.kind = "StatusCode"
    THEN IF CanonicalReason(e.code) # ""
         THEN [status |-> e.code, ctype |-> "text/plain; charset=utf-8",
               body |-> <<"text", CanonicalReason(e.code)>>]
         ELSE [status |-> e.code, ctype |-> "", body |-> NoBody]
    ELSE [status |-> INTERNAL_SERVER_ERROR, ctype |-> "", body |-> NoBody]

\* The body of get_index and of get_asset after watching.get_asset(..).await:
\* Some((mime_type, content)) answers the content under that Content-Type,
\* None answers Err(StatusCode::NOT_FOUND)?.
HandlerResponse(route, result) ==
    IF result # None
    THEN [status |-> OK, ctype |-> result[1], body |-> <<"asset", result[2]>>]
    ELSE IntoResponse([kind |-> "StatusCode", code |-> NOT_FOUND])

\* An HTTP request of a client: the target, the compiler's call count when
\* the handler started, what watching.get_asset returned, the response, and
\* whether the client's previous request asked for the same path with no
\* compiler call since that request started (then `first` is what
\* watching.get_asset returned to it).
NoHttp == [pc |-> "idle", uri |-> <<>>, epoch |-> 0, result |-> None,
           response |-> NoResponse, twice |-> FALSE, first |-> None]

\* ---------------------------------------------------------- main()'s startup
\* The environment variables main() may find, and what env::var answers for
\* one: a value, or Err(NotPresent), or Err(NotUnicode).
EnvKeys == {"SOCKET", "RUST_LOG"}
NotPresent == [tag |-> "NotPresent", val |-> ""]
NotUnicode == [tag |-> "NotUnicode", val |-> ""]
Value(v) == [tag |-> "Ok", val |-> v]
EnvValues ==
    { NotPresent, NotUnicode, Value(""), Value("127.0.0.1:3000"),
      Value("0.0.0.0:8080"), Value("debug") }
Defaults == {"127.0.0.1:3000", "[::1]:3000"}

\* env(key, default): the variable's value when env::var finds one, the
\* default when it is not present, the error otherwise.
Env(found, default) ==
    CASE found.tag = "Ok"         -> [tag |-> "Ok", val |-> found.val]
      [] found.tag = "NotPresent" -> [tag |-> "Ok", val |-> default]
      [] OTHER                    -> [tag |-> "Err", val |-> found.tag]

\* str::parse::<SocketAddr>: an IP address, a colon and a port.
IsSocketAddr(v) == v \in {"127.0.0.1:3000", "0.0.0.0:8080", "[::1]:3000"}

\* main() listening on the default address, the variable being unset.
Listening ==
    [pc |-> "listening",
     environ |-> [k \in EnvKeys |-> NotPresent],
     key |-> "SOCKET", default |-> "127.0.0.1:3000",
     value |-> Value("127.0.0.1:3000"), address |-> "127.0.0.1:3000"]

\* ------------------------------------------------------------------- Init
\* Watching::new: both locks free, a fresh compiler over an empty
\* MemoryFileSystem, an unarmed watcher, and the initial build spawned.
New ==
    /\ pc = [t \in Tasks |-> IF t = 1 THEN "pause" ELSE "unspawned"]
    /\ delivered = [t \in Tasks |-> NoArgs]
    /\ args = [t \in Tasks |-> NoArgs]
    /\ res = [t \in Tasks |-> "none"]
    /\ local = [t \in Tasks |-> NoLocal]
    /\ cLock = FreeLock
    /\ wLock = FreeLock
    /\ comp = [files |-> NoDeps, missing |-> NoDeps, started |-> 0,
               completed |-> 0, running |-> 0, rebuilds |-> 0,
               args |-> NoArgs]
    /\ store = [f \in OutFiles |-> 0]
    /\ published = [f \in OutFiles |-> 0]
    /\ watcher = [files |-> {}, missing |-> {}, armed |-> FALSE,
                  paused |-> FALSE, events |-> 0, after |-> "none"]
    /\ req = [r \in Readers |-> IdleReq]
    /\ http = [r \in Readers |-> NoHttp]

\* The server after startup: main() listens and routes() has made the Watching.
Init == New /\ boot = Listening


\* ----------------------------------------------------------------- actions
\* Faulty variant: on_event_handle starts the rebuild itself and asks for the
\* watcher lock before it returns.
OnEventInline(t, c, d) ==
    /\ watcher.armed /\ ~watcher.paused
    /\ pc[t] = "unspawned"
    /\ \A u \in Tasks : u < t => pc[u] # "unspawned"
    /\ delivered' = [delivered EXCEPT ![t] = [changed |-> c, deleted |-> d]]
    /\ args' = [args EXCEPT ![t] = SpawnArgs(c, d)]
    /\ wLock' = Request(wLock, TaskId(t), "r")
    /\ pc' = [pc EXCEPT ![t] = "pausing"]
    /\ watcher' = [watcher EXCEPT !.events = @ + 1]
    /\ UNCHANGED << res, local, cLock, comp, store, published, req, http,
                    boot >>

\* The watcher delivers an aggregated event: on_event_handle spawns a rebuild
\* task with the delivered sets and returns. Only an armed, unpaused watcher
\* delivers, and only changes of paths it watches.
OnEvent(t, c, d) ==
    /\ watcher.armed /\ ~watcher.paused
    /\ pc[t] = "unspawned"
    /\ \A u \in Tasks : u < t => pc[u] # "unspawned"
    /\ delivered' = [delivered EXCEPT ![t] = [changed |-> c, deleted |-> d]]
    /\ args' = [args EXCEPT ![t] = SpawnArgs(c, d)]
    /\ pc' = [pc EXCEPT ![t] = "pause"]
    /\ watcher' = [watcher EXCEPT !.events = @ + 1]
    /\ UNCHANGED << res, local, cLock, wLock, comp, store, published, req,
                    http, boot >>

\* self.watcher.read().await
PauseRequest(t) ==
    /\ pc[t] = "pause"
    /\ wLock' = Request(wLock, TaskId(t), "r")
    /\ pc' = [pc EXCEPT ![t] = "pausing"]
    /\ UNCHANGED << delivered, args, res, local, cLock, comp, store,
                    published, watcher, req, http, boot >>

\* .pause().unwrap() under the read guard, which is then dropped
Pause(t) ==
    /\ pc[t] = "pausing"
    /\ HoldsRead(wLock, TaskId(t))
    /\ watcher' = [watcher EXCEPT !.paused = TRUE]
    /\ local' = [local EXCEPT ![t].paused = TRUE]
    /\ wLock' = Release(wLock, TaskId(t))
    /\ pc' = [pc EXCEPT ![t] = After("pause")]
    /\ UNCHANGED << delivered, args, res, cLock, comp, store, published, req,
                    http, boot >>

\* self.compiler.write().await
CompileRequest(t) ==
    /\ pc[t] = "lockW"
    /\ cLock' = Request(cLock, TaskId(t), CompileLockMode)
    /\ pc' = [pc EXCEPT ![t] = "compile"]
    /\ UNCHANGED << delivered, args, res, local, wLock, comp, store,
                    published, watcher, req, http, boot >>

\* .build() / .rebuild(changed_files, deleted_files) is called under the guard
CompileStart(t) ==
    /\ pc[t] = "compile"
    /\ HoldsWrite(cLock, TaskId(t)) \/ HoldsRead(cLock, TaskId(t))
    /\ comp' = [comp EXCEPT
                  !.started = @ + 1,
                  !.running = @ + 1,
                  !.rebuilds = IF Kind(t) = "rebuild" THEN @ + 1 ELSE @,
                  !.args = IF Kind(t) = "rebuild" THEN CompilerArgs(args[t])
                                                  ELSE NoArgs]
    /\ pc' = [pc EXCEPT ![t] = "compiling"]
    /\ UNCHANGED << delivered, args, res, local, cLock, wLock, store,
                    published, watcher, req, http, boot >>

\* the compiler emits its next output file, as the content of this run
CompileWrite(t) ==
    /\ pc[t] = "compiling"
    /\ comp.running = 1
    /\ \E i \in 1 .. Len(EmitOrder) :
          /\ store[EmitOrder[i]] # comp.started
          /\ \A j \in 1 .. i - 1 : store[EmitOrder[j]] = comp.started
          /\ store' = [store EXCEPT ![EmitOrder[i]] = comp.started]
    /\ UNCHANGED << pc, delivered, args, res, local, cLock, wLock, comp,
                    published, watcher, req, http, boot >>

\* the compiler call returns, Ok when it has emitted its output and Err when
\* it has emitted none, leaving a dependency report; the write guard is
\* dropped at the end of the statement
CompileEnd(t, r, d) ==
    /\ pc[t] = "compiling"
    /\ \/ r = "ok" /\ Emitted(store, comp.started) = Len(EmitOrder)
       \/ r = "err" /\ Emitted(store, comp.started) = 0
    /\ comp' = [comp EXCEPT !.files = NewDeps(@, d.files),
                            !.missing = NewDeps(@, d.missing),
                            !.completed = @ + 1,
                            !.running = @ - 1,
                            !.args = NoArgs]
    /\ published' = store
    /\ res' = [res EXCEPT ![t] = r]
    /\ local' = [local EXCEPT ![t].compiled = TRUE]
    /\ cLock' = Release(cLock, TaskId(t))
    /\ pc' = [pc EXCEPT ![t] = AfterCompile(r)]
    /\ UNCHANGED << delivered, args, wLock, store, watcher, req, http,
                    boot >>

\* let compiler = self.compiler.read().await
DepsRequest(t) ==
    /\ pc[t] = "lockR"
    /\ cLock' = Request(cLock, TaskId(t), "r")
    /\ pc' = [pc EXCEPT ![t] = "deps"]
    /\ UNCHANGED << delivered, args, res, local, wLock, comp, store,
                    published, watcher, req, http, boot >>

\* Faulty variant: the compiler read guard is dropped once the dependencies
\* are read.
ReadDepsDropGuard(t) ==
    /\ pc[t] = "deps"
    /\ HoldsRead(cLock, TaskId(t))
    /\ local' = [local EXCEPT ![t].read = TRUE,
                              ![t].fresh = local[t].compiled,
                              ![t].logged = LogsDiagnostics(Kind(t)),
                              ![t].files = comp.files,
                              ![t].missing = comp.missing]
    /\ cLock' = Release(cLock, TaskId(t))
    /\ wLock' = Request(wLock, TaskId(t), "w")
    /\ pc' = [pc EXCEPT ![t] = After("deps")]
    /\ UNCHANGED << delivered, args, res, comp, store, published,
                    watcher, req, http, boot >>

\* let files = ..file_dependencies(); let missing = ..missing_dependencies()
\* under the read guard, the diagnostics logged where the function logs
\* them, then self.watcher.write().await
ReadDeps(t) ==
    /\ pc[t] = "deps"
    /\ HoldsRead(cLock, TaskId(t))
    /\ local' = [local EXCEPT ![t].read = TRUE,
                              ![t].fresh = local[t].compiled,
                              ![t].logged = LogsDiagnostics(Kind(t)),
                              ![t].files = comp.files,
                              ![t].missing = comp.missing]
    /\ wLock' = Request(wLock, TaskId(t), "w")
    /\ pc' = [pc EXCEPT ![t] = After("deps")]
    /\ UNCHANGED << delivered, args, res, cLock, comp, store, published,
                    watcher, req, http, boot >>

\* .watch(files, (), missing, start_time, self, self).await under the write
\* guard; then the function returns: its arguments, its bindings and both
\* guards are dropped
Watch(t) ==
    /\ pc[t] = "watch"
    /\ HoldsWrite(wLock, TaskId(t))
    /\ watcher' = [watcher EXCEPT
                     !.files = Register(@, WatchArg(Kind(t), local[t].files)),
                     !.missing = Register(@, WatchArg(Kind(t), local[t].missing)),
                     !.armed = TRUE,
                     !.paused = FALSE,
                     !.after = res[t]]
    /\ local' = [local EXCEPT ![t].rearmed = TRUE,
                              ![t].files = NoDeps,
                              ![t].missing = NoDeps]
    /\ delivered' = [delivered EXCEPT ![t] = NoArgs]
    /\ args' = [args EXCEPT ![t] = NoArgs]
    /\ wLock' = Release(wLock, TaskId(t))
    /\ cLock' = Release(cLock, TaskId(t))
    /\ res' = [res EXCEPT ![t] = "none"]
    /\ pc' = [pc EXCEPT ![t] = After("watch")]
    /\ UNCHANGED << comp, store, published, req, http, boot >>

\* Faulty variant: reading a file takes it out of the store.
DoServeDrain(r, p, w, l) ==
    /\ LET path == Join(OutputPath, p)
       IN  /\ req' = [req EXCEPT ![r] =
                        [pc |-> "done", path |-> p,
                         when |-> IF w = "before" /\ comp.completed > 0
                                  THEN "across" ELSE w,
                         result |-> IF IsHit(Stat(store, path))
                                    THEN << MimeOf(path), Content(store, path) >>
                                    ELSE None,
                         expect |-> Content(published, path),
                         during |-> comp.running > 0]]
           /\ store' = [f \in OutFiles |-> IF f = path THEN 0 ELSE store[f]]
    /\ cLock' = Release(l, ReqId(r))
    /\ UNCHANGED << pc, delivered, args, res, local, wLock, comp,
                    published, watcher, http, boot >>

\* fs.stat(&path), fs.read_file(&path) and the MIME guess under the read
\* guard; Some(..) or None is returned and the guard is dropped
DoServe(r, p, w, l) ==
    /\ LET path == Join(OutputPath, p)
       IN  req' = [req EXCEPT ![r] =
                     [pc |-> "done", path |-> p,
                      when |-> IF w = "before" /\ comp.completed > 0
                               THEN "across" ELSE w,
                      result |-> IF IsHit(Stat(store, path))
                                 THEN << MimeOf(path), Content(store, path) >>
                                 ELSE None,
                      expect |-> Content(published, path),
                      during |-> comp.running > 0]]
    /\ cLock' = Release(l, ReqId(r))
    /\ UNCHANGED << pc, delivered, args, res, local, wLock, comp, store,
                    published, watcher, http, boot >>

\* When a get_asset call is made.
Now == IF comp.completed = 0 THEN "before" ELSE "after"

\* get_asset is called: let compiler = self.compiler.read().await; the
\* guard is granted at once and the call is served, or the call queues
GetAsset(r, p) ==
    /\ req[r].pc = "idle"
    /\ LET l == Request(cLock, ReqId(r), "r")
       IN  IF AssetGuard(r, l)
           THEN DoServe(r, p, Now, l)
           ELSE /\ cLock' = l
                /\ req' = [req EXCEPT ![r] = [IdleReq EXCEPT
                              !.pc = "pending", !.path = p, !.when = Now]]
                /\ UNCHANGED << pc, delivered, args, res, local, wLock, comp,
                                store, published, watcher, http, boot >>

\* the queued call is granted the read guard and served
ServeAsset(r) ==
    /\ req[r].pc = "pending"
    /\ AssetGuard(r, cLock)
    /\ DoServe(r, req[r].path, req[r].when, cLock)

\* the caller is done with the answer and may call again
Forget(r) ==
    /\ req[r].pc = "done"
    /\ req' = [req EXCEPT ![r] = IdleReq]
    /\ UNCHANGED << pc, delivered, args, res, local, cLock, wLock, comp,
                    store, published, watcher, http, boot >>

\* The client whose requests follow one another.
Clients == { r \in Readers : r = 1 }

\* The compiler calls started and returned so far.
Epoch == comp.started + comp.completed

\* A request arrives and the router calls its handler. It repeats the
\* client's previous request when it asks for the same path and no compiler
\* call has started or returned since that request arrived.
HttpGet(r, uri) ==
    /\ http[r].pc \in {"idle", "responded"}
    /\ req[r].pc = "idle"
    /\ LET again == /\ http[r].pc = "responded"
                    /\ RoutePath(http[r].uri) = RoutePath(uri)
                    /\ http[r].epoch = Epoch
       IN  http' = [http EXCEPT ![r] =
                      [pc |-> "routed", uri |-> uri, epoch |-> Epoch,
                       result |-> None, response |-> NoResponse,
                       twice |-> again,
                       first |-> IF again THEN http[r].result ELSE None]]
    /\ UNCHANGED << pc, delivered, args, res, local, cLock, wLock, comp,
                    store, published, watcher, req, boot >>

\* the handler calls watching.get_asset("index.html") / watching.get_asset(path)
HttpCall(r) ==
    /\ http[r].pc = "routed"
    /\ GetAsset(r, RoutePath(http[r].uri))

\* the handler turns what watching.get_asset returned into the response
HttpRespond(r) ==
    /\ http[r].pc = "routed"
    /\ req[r].pc = "done"
    /\ http' = [http EXCEPT ![r].pc = "responded",
                            ![r].result = req[r].result,
                            ![r].response =
                                HandlerResponse(RouteOf(http[r].uri),
                                                req[r].result)]
    /\ req' = [req EXCEPT ![r] = IdleReq]
    /\ UNCHANGED << pc, delivered, args, res, local, cLock, wLock, comp,
                    store, published, watcher, boot >>

\* main(): env("SOCKET", "127.0.0.1:3000")
EnvLookup ==
    /\ boot.pc = "start"
    /\ boot' = [boot EXCEPT !.pc = "looked",
                            !.value = Env(boot.environ[boot.key], boot.default)]
    /\ UNCHANGED << pc, delivered, args, res, local, cLock, wLock, comp,
                    store, published, watcher, req, http >>

\* main(): `?` on the lookup, then .parse()? into a SocketAddr; either `?`
\* ends main with the error
Parse ==
    /\ boot.pc = "looked"
    /\ boot' = IF boot.value.tag = "Ok" /\ IsSocketAddr(boot.value.val)
               THEN [boot EXCEPT !.pc = "parsed", !.address = boot.value.val]
               ELSE [boot EXCEPT !.pc = "failed"]
    /\ UNCHANGED << pc, delivered, args, res, local, cLock, wLock, comp,
                    store, published, watcher, req, http >>

\* main(): TcpListener::bind(&address)
Bind ==
    /\ boot.pc = "parsed"
    /\ boot' = [boot EXCEPT !.pc = "listening"]
    /\ UNCHANGED << pc, delivered, args, res, local, cLock, wLock, comp,
                    store, published, watcher, req, http >>

\* The aggregated events a watcher that watches `w` can report.
Changes(w) == { cd \in EventChoices : cd[1] \cup cd[2] \subseteq w }

\* One step of a build or rebuild task among `T`, or an event spawning one.
BuildStep(T) ==
    \/ \E t \in T : \E cd \in Changes(watcher.files \cup watcher.missing) :
          OnEvent(t, cd[1], cd[2])
    \/ \E t \in T : PauseRequest(t)
    \/ \E t \in T : Pause(t)
    \/ \E t \in T : CompileRequest(t)
    \/ \E t \in T : CompileStart(t)
    \/ \E t \in T : CompileWrite(t)
    \/ \E t \in T : \E r \in {"ok", "err"} : \E d \in DepChoices :
          CompileEnd(t, r, d)
    \/ \E t \in T : DepsRequest(t)
    \/ \E t \in T : ReadDeps(t)
    \/ \E t \in T : Watch(t)

\* One step of a get_asset call.
AssetStep ==
    \/ \E r \in Readers : \E p \in ReqPaths : GetAsset(r, p)
    \/ \E r \in Readers : ServeAsset(r)
    \/ \E r \in Readers : Forget(r)

\* The orchestrator alone: the initial build and the rebuilds the watcher's
\* events spawn.
Next == BuildStep(Tasks)

Spec == Init /\ [][Next]_vars

\* The orchestrator serving get_asset calls while it builds and rebuilds.
ServeNext == BuildStep(ServeTasks) \/ AssetStep

ServeSpec == Init /\ [][ServeNext]_vars

\* The steps of one build or rebuild task.
TaskStep(t) ==
    \/ PauseRequest(t)
    \/ Pause(t)
    \/ CompileRequest(t)
    \/ CompileStart(t)
    \/ CompileWrite(t)
    \/ \E r \in {"ok", "err"} : \E d \in DepChoices : CompileEnd(t, r, d)
    \/ DepsRequest(t)
    \/ ReadDeps(t)
    \/ Watch(t)

\* The orchestrator and get_asset calls under the tokio scheduler: a task
\* that can take a step (its await is ready) is polled in the end, every
\* compiler call and every watcher call returns, and a get_asset call that
\* has its guard is served. Events and new get_asset calls come or do not.
LiveNext == BuildStep(Tasks) \/ AssetStep

LiveSpec ==
    /\ Init /\ [][LiveNext]_vars
    /\ \A t \in Tasks : WF_vars(TaskStep(t))
    /\ \A r \in Readers : WF_vars(ServeAsset(r))

\* One step of an HTTP request of a client.
HttpStep ==
    \/ \E r \in Clients : \E uri \in Uris : HttpGet(r, uri)
    \/ \E r \in Clients : HttpCall(r)
    \/ \E r \in Clients : ServeAsset(r)
    \/ \E r \in Clients : HttpRespond(r)

\* The routes of dev_routes.rs answering a client while the orchestrator
\* builds and rebuilds.
HttpNext == BuildStep(ServeTasks) \/ HttpStep

HttpSpec == Init /\ [][HttpNext]_vars

\* main() starting: any environment, and env called with any key and default.
\* routes() makes the Watching only once the address is known; until then
\* its variables stand as Watching::new will make them.
MainInit ==
    /\ New
    /\ boot \in { [pc |-> "start", environ |-> en, key |-> k, default |-> d,
                    value |-> NotPresent, address |-> ""] :
                      en \in [EnvKeys -> EnvValues], k \in EnvKeys,
                      d \in Defaults }

MainNext == EnvLookup \/ Parse \/ Bind

MainSpec == MainInit /\ [][MainNext]_vars

\* ------------------------------------------------------------ properties
Spawned(t) == pc[t] # "unspawned"
Compiling(t) == pc[t] = "compiling"
\* Between the start of the pause step and the end of the rearm step.
InSequence(t) ==
    pc[t] \in {"pausing", "lockW", "compile", "compiling", "lockR", "deps",
               "watch"}
\* The compiler call of the task has been made.
Called(t) == pc[t] \in {"compiling", "lockR", "deps", "watch", "done"}
AllSettled == \A t \in Tasks : pc[t] \in {"unspawned", "done"}
Rebuilds == { t \in Tasks : Kind(t) = "rebuild" }
ContentOf(result) == IF result = None THEN 0 ELSE result[2]

\* C1: whenever a compiler build or rebuild call is executing, the watcher is
\* paused (so that no aggregated event can be delivered during the call).
C1_PausedWhileCompiling ==
    \A t \in Tasks : Compiling(t) => watcher.paused

\* C2: no two tasks are both between the start of their pause step and the
\* end of their rearm step.
C2_OneSequenceAtATime ==
    \A t, u \in Tasks : t # u => ~(InSequence(t) /\ InSequence(u))

\* C3: at most one compiler build/rebuild call executes at a time, under the
\* compiler write guard; a task that asks for the guard while another task's
\* call runs waits in the lock's queue and has not started its call.
C3_OneCompilerCall ==
    /\ comp.running <= 1
    /\ \A t, u \in Tasks : Compiling(t) /\ Compiling(u) => t = u
    /\ \A t \in Tasks : Compiling(t) => HoldsWrite(cLock, TaskId(t))
    /\ \A t, u \in Tasks :
          Compiling(t) /\ pc[u] = "compile"
             => Waits(cLock, TaskId(u)) /\ ~HoldsWrite(cLock, TaskId(u))

\* C3 witness: a rebuild waits for the write guard while another task's
\* compiler call runs.
C3_Witness ==
    \E t, u \in Tasks :
        Compiling(t) /\ pc[u] = "compile" /\ Waits(cLock, TaskId(u))

\* C4: in every task the pause is done before the compiler call begins, the
\* dependency sets are read after the task's own compiler call has returned,
\* and the rearm comes after that read.
C4_StepOrder ==
    \A t \in Tasks :
        /\ Called(t) => local[t].paused
        /\ local[t].read => local[t].compiled /\ local[t].fresh
        /\ local[t].rearmed => local[t].read /\ local[t].fresh
        /\ pc[t] = "done" => local[t].rearmed

\* C4 witness: a rebuild has gone through all its steps.
C4_Witness ==
    \E t \in Rebuilds : pc[t] = "done" /\ local[t].rearmed /\ local[t].fresh

\* C5: the rearm step of every build and rebuild leaves the watcher watching
\* exactly the compiler's current file and missing dependencies.
C5_RearmWatchesCurrentDeps ==
    [][ \A t \in Tasks :
           pc[t] = "watch" /\ pc'[t] = "done"
              => /\ watcher'.files = comp'.files.all
                 /\ watcher'.missing = comp'.missing.all ]_vars

\* C6: every delivered event spawns one rebuild task, every rebuild task
\* makes one compiler rebuild call, and the call receives the delivered
\* changed and deleted sets.
C6_EventToRebuild ==
    /\ watcher.events = Cardinality({ t \in Rebuilds : Spawned(t) })
    /\ comp.rebuilds = Cardinality({ t \in Rebuilds : Called(t) })
    /\ \A t \in Rebuilds :
          Spawned(t) /\ pc[t] # "done" => args[t] = delivered[t]
    /\ \A t \in Rebuilds : Compiling(t) => comp.args = delivered[t]

\* C6 witness: the compiler runs a rebuild for an event with a changed and a
\* deleted path.
C6_Witness ==
    \E t \in Rebuilds :
        /\ Compiling(t)
        /\ delivered[t].changed # {} /\ delivered[t].deleted # {}
        /\ comp.args = delivered[t]

\* C7: a task whose compiler call failed goes on to the dependency read and
\* the rearm, returns normally, and leaves the watcher armed.
C7_FailureStillRearms ==
    /\ \A t \in Tasks :
          res[t] = "err" => pc[t] \in {"lockR", "deps", "watch"}
    /\ \A t \in Tasks : pc[t] = "done" => local[t].read /\ local[t].rearmed
    /\ watcher.after = "err" => watcher.armed

\* C7 witness: the watcher was last armed by a task whose compiler call
\* failed, is not paused, and can deliver the event of a further rebuild.
C7_Witness ==
    /\ watcher.after = "err" /\ watcher.armed /\ ~watcher.paused
    /\ AllSettled
    /\ \E t \in Tasks : ~Spawned(t)

\* C8: a get_asset call returns the content the latest completed compiler
\* call had left for the path when the call returned, never the output of a
\* compiler call still in progress.
C8_LatestCompletedOutput ==
    \A r \in Readers :
        req[r].pc = "done"
           => /\ ContentOf(req[r].result) = req[r].expect
              /\ ContentOf(req[r].result) <= comp.completed
              /\ ~req[r].during

\* C8 witness: a call returns the second build's index.html, which replaced
\* the first build's.
C8_Witness ==
    \E r \in Readers :
        /\ req[r].pc = "done"
        /\ req[r].result = << "text/html", 2 >>
        /\ published[<<"index.html">>] = 2

C11_IdempotentReadOnly ==
    [][ /\ \A r \in Clients :
              /\ http'[r].pc = "responded" /\ http'[r].twice
              /\ http'[r].epoch = comp'.started + comp'.completed
              => http'[r].result = http'[r].first
        /\ req' # req => UNCHANGED << store, published, comp, watcher >>
      ]_vars

\* C11 witness: a repeated request for index.html has been answered while
\* no compiler call has started or returned since the first one arrived,
\* both times with the built file.
C11_Witness ==
    \E r \in Clients :
        /\ http[r].pc = "responded" /\ http[r].twice
        /\ http[r].epoch = Epoch
        /\ http[r].result # None /\ http[r].first = http[r].result
        /\ RoutePath(http[r].uri) = <<"index.html">>

\* C12: a get_asset call returns Some exactly when its path, joined to the
\* output directory, is a file written in the output store, and then with
\* that file's content; a path that does not exist and a path that is a
\* directory return None.
C12_SomeIffRegularFile ==
    [][ \A r \in Readers :
           req'[r].pc = "done" /\ req[r].pc # "done"
              => LET f == OutputPath \o req'[r].path
                 IN  /\ req'[r].result # None
                           <=> f \in OutFiles /\ store[f] > 0
                     /\ req'[r].result # None
                           => req'[r].result[2] = store[f]
      ]_vars

\* C12 witness: a call made after the first build had written
\* assets/main.js has asked for the directory assets and got None.
C12_Witness ==
    \E r \in Readers :
        /\ req[r].pc = "done" /\ req[r].path = <<"assets">>
        /\ req[r].result = None /\ req[r].when = "after"
        /\ comp.completed = 1 /\ published[<<"assets", "main.js">>] = 1

\* C13: on both routes, a GET whose asset is absent is answered 404 with an
\* empty body, and a GET whose asset is present is answered with the asset's
\* bytes under the Content-Type of its MIME type.
C13_AbsentIsEmpty404 ==
    \A r \in Clients :
        http[r].pc = "responded"
           => IF http[r].result = None
              THEN /\ http[r].response.status = NOT_FOUND
                   /\ http[r].response.body = NoBody
              ELSE /\ http[r].response.status = OK
                   /\ http[r].response.ctype = http[r].result[1]
                   /\ http[r].response.body = <<"asset", http[r].result[2]>>

\* C14: a task whose compiler call failed has logged the compilation's
\* diagnostics when it comes to rearm the watcher, in build() as in rebuild().
C14_FaultsLogged ==
    \A t \in Tasks :
        pc[t] = "watch" /\ res[t] = "err" => local[t].logged

C16_DefaultWhenUnsetOrEmpty ==
    LET found == boot.environ[boot.key]
    IN  /\ boot.pc # "start"
              => IF found \in {NotPresent, Value("")}
                 THEN boot.value = Value(boot.default)
                 ELSE found.tag = "Ok" => boot.value = found
        /\ boot.pc \in {"failed", "listening"}
              /\ found \in {NotPresent, Value("")}
              /\ IsSocketAddr(boot.default)
              => boot.pc = "listening" /\ boot.address = boot.default

\* C17: no task waits for the compiler lock while it holds or awaits the
\* watcher lock, a task that waits for the watcher write lock holds the
\* compiler read lock, no holder of the watcher lock waits for anything, and
\* under fair scheduling every build or rebuild that has started comes to
\* the end of its rearm.
C17_EventuallyRearmed ==
    /\ [](\A t \in Tasks :
            /\ Waits(cLock, TaskId(t))
                  => /\ ~HoldsRead(wLock, TaskId(t))
                     /\ ~HoldsWrite(wLock, TaskId(t))
                     /\ ~Waits(wLock, TaskId(t))
            /\ Waits(wLock, TaskId(t)) /\ pc[t] = "watch"
                  => HoldsRead(cLock, TaskId(t))
            /\ HoldsRead(wLock, TaskId(t)) \/ HoldsWrite(wLock, TaskId(t))
                  => ENABLED TaskStep(t))
    /\ \A t \in Tasks : Spawned(t) ~> (pc[t] = "done")

\* C17 witness: a task waits for the watcher write lock with the compiler
\* read lock in hand, behind a task that holds the watcher read lock to
\* pause, while a get_asset call holds the compiler read lock too.
C17_Witness ==
    \E t, u \in Tasks : \E r \in Readers :
        /\ pc[t] = "watch" /\ Waits(wLock, TaskId(t))
        /\ HoldsRead(cLock, TaskId(t))
        /\ pc[u] = "pausing" /\ HoldsRead(wLock, TaskId(u))
        /\ HoldsRead(cLock, ReqId(r))

\* C18: from its dependency read to the end of its rearm a task holds the
\* compiler read lock, so no compiler call executes in between and the
\* dependency data it hands to the watcher is the compiler's current data.
C18_NoCompileBeforeRearm ==
    \A t \in Tasks :
        pc[t] = "watch"
           => /\ HoldsRead(cLock, TaskId(t))
              /\ comp.running = 0
              /\ \A u \in Tasks : ~Compiling(u)
              /\ local[t].files = comp.files
              /\ local[t].missing = comp.missing

\* C18 witness: a rebuild has read the dependencies and is about to rearm
\* while another rebuild waits for the compiler write lock, which the first
\* one's read guard keeps from it.
C18_Witness ==
    \E t, u \in Rebuilds :
        /\ pc[t] = "watch" /\ HoldsRead(cLock, TaskId(t))
        /\ local[t].read
        /\ pc[u] = "compile" /\ Waits(cLock, TaskId(u))

\* C19: whenever no build or rebuild task is in flight and at least one has
\* completed, the watcher is armed and not paused.
C19_IdleWatcherArmed ==
    AllSettled /\ (\E t \in Tasks : pc[t] = "done")
       => watcher.armed /\ ~watcher.paused

\* C19 witness: the initial build and the rebuild of every delivered event
\* have completed, the last rearm after a failed compiler call.
C19_AllDoneWitness ==
    /\ \A t \in Tasks : pc[t] = "done"
    /\ watcher.events = MaxTasks - 1
    /\ watcher.after = "err"
    /\ watcher.armed /\ ~watcher.paused

=============================================================================
